---- MODULE Spec2Model ----
(***************************************************************************)
(* MeReader: progress-bounded hybrid retrieval.                            *)
(*                                                                         *)
(* The model covers the ingestion pipeline (embed_book_content and its     *)
(* background task), the deletion of a book's embeddings, the reading      *)
(* progress routes and the query pipeline (process_query), all acting on   *)
(* one book id.  The coroutines run on one event loop: an action is the    *)
(* code between two suspension points (an awaited call to the embedding    *)
(* or completion service), taken at the moment of its store write.         *)
(* Calls to the vector store, the embedding/completion service, the        *)
(* database and the file system may fail; each failure is an input of      *)
(* the action that makes the call.                                         *)
(***************************************************************************)
EXTENDS Integers, Sequences, FiniteSets, TLC

VARIABLES
    bookInDb,       \* the Book row (with its chapters and progress) exists
    contentOnDisk,  \* the chapter content files exist
    progress,       \* ReadingProgress row: current_location, completion_percentage
    vectors,        \* points of the vector store tagged with this book id
    bm25File,       \* {book_id}_bm25.pkl: absent, or the indexed chunk texts
    metaFile,       \* {book_id}_metadata.json: absent, or the metadata list
    task,           \* ingestion tasks: frames of embed_book_content_task
    del,            \* outcome of the last delete_book_embeddings call
    q,              \* the frame of process_query
    call            \* the last call of a function of the parser, the location
                    \* service or the fusion, with its arguments and result

vars == <<bookInDb, contentOnDisk, progress, vectors, bm25File, metaFile, task, del, q, call>>

\* no function has been called
NoCall == [op |-> "none"]

\* an absent file
NoFile == [exists |-> FALSE, data |-> <<>>]
File(data) == [exists |-> TRUE, data |-> data]

(***************************************************************************)
(* Bounds of the model.                                                    *)
(***************************************************************************)
\* chunks per embedding batch (embedding_service.py:72 sets 120; scaled so
\* that a chapter of three chunks spans two batches)
max_batch_size == 2
\* most expanded queries a completion yields
MaxExpanded == 1
Tasks == {"t1", "t2"}
\* most chapters of a parsed book
MaxChapters == 3
\* largest current location and largest total passed to the location service
MaxLocation == 12
MaxTotal == 10
\* most results handed to the fusion
MaxResults == 3
\* most results handed to the reranking, and most ratings of a response
MaxRerank == 17
MaxMatches == 2
\* most chunks of a keyword index searched on its own
MaxIndexed == 3
\* longest chapter text given to the chunker, in characters
MaxTextLen == 1300
\* inputs of the progress routes and of the queries
ProgressLocations == {10, 30}
QueryProfiles == {"none", "mixed"}

(***************************************************************************)
(* Program constants.                                                      *)
(***************************************************************************)
summary_interval == 11
min_file_size == 50
BM25_RESULTS_LIMIT == 10
vector_limit == 15
summary_limit == 5
expanded_limit == 5
default_total_locations == 100
context_limit == 10
\* score thresholds, in hundredths
vector_threshold == 60
summary_threshold == 65
expanded_threshold == 50
\* strategy weights, in tenths
BM25_WEIGHT == 4
summary_weight == 4
expanded_weight == 7
\* characters of plain text per location
LOCATION_CHUNK_SIZE == 1000
\* reranking: fewest results, results rated, and when and how many are kept
rerank_min_results == 5
rerank_limit == 15
rerank_threshold == 8
rerank_min_words == 3
reranked_limit == 25
\* chunker: configured and default sizes, smallest chunk, and how far past
\* the target size a paragraph or sentence break is looked for
CHUNK_SIZE == 400
CHUNK_OVERLAP == 100
default_chunk_size == 650
default_chunk_overlap == 50
min_chunk_size == 100
paragraph_window == 50
sentence_window == 30

(***************************************************************************)
(* The book: two chapters that partition [1, total_locations].             *)
(***************************************************************************)
total_locations == 24

Chapters ==
    << [order |-> 1, start_location |-> 1,  end_location |-> 12, file_size |-> 5000, nchunks |-> 3],
       [order |-> 2, start_location |-> 13, end_location |-> 24, file_size |-> 2000, nchunks |-> 1] >>

Min(a, b) == IF a < b THEN a ELSE b
Max(a, b) == IF a > b THEN a ELSE b

\* the text of the chunk at 1-based ordinal n of chapter k
ChunkText(k, n) == 10 * k + n

\* batch_chunks: the chapter's chunks in groups of batch_size; batch b is 1-based
NumBatches(k) == (Chapters[k].nchunks + max_batch_size - 1) \div max_batch_size
BatchLen(k, b) == Min(max_batch_size, Chapters[k].nchunks - (b - 1) * max_batch_size)
BatchChunk(k, b, i) == ChunkText(k, (b - 1) * max_batch_size + i + 1)

\* the interpolation over the whole book instead of the chapter
ChunkLocationWholeBook(k, len, i) ==
    LET s == 1
        e == total_locations
        raw == s + ((e - s) * (i + 1)) \div (len + 1)
    IN  Max(s, Min(e, raw))

\* location of the chunk at 0-based index i of a batch of len chunks:
\* int(start + (end - start) / (len + 1) * (i + 1)) clamped to the chapter
ChunkLocation(k, len, i) ==
    LET s == Chapters[k].start_location
        e == Chapters[k].end_location
        raw == s + ((e - s) * (i + 1)) \div (len + 1)
    IN  Max(s, Min(e, raw))

(***************************************************************************)
(* Vector store (QdrantManager).                                           *)
(***************************************************************************)
\* has_vectors_for_book: a failing scroll is logged and answered False
HasVectorsForBook(store, scrollFails) ==
    IF scrollFails THEN FALSE ELSE store # {}

\* add_text_vectors: upsert by id; a point with the same id is replaced
AddTextVectors(store, points) ==
    {v \in store : \A p \in points : p.id # v.id} \cup points

ContentPoint(t, m) ==
    [id |-> <<"uuid4", t, m.text>>, text |-> m.text, location |-> m.location,
     chapter_order |-> m.chapter_order, content_type |-> "content"]

SummaryPoint(location) ==
    [id |-> <<"uuid5", "sum", location>>, text |-> 900 + location, location |-> location,
     content_type |-> "summary"]

\* text.strip() is empty: a buffer is the sequence of the texts put into it,
\* and 0 is a text of white space only
Blank(text) == \A j \in 1..Len(text) : text[j] = 0

\* a summary stored under an id of its own
create_location_summary_uuid4(store, location, text, summary) ==
    IF Blank(text) \/ summary = 0 THEN store
    ELSE AddTextVectors(store, {[SummaryPoint(location) EXCEPT
                                    !.id = <<"uuid4", "sum", summary>>, !.text = summary]})

\* _create_location_summary; summary is the text the completion gave, 0
\* when it gave none or when a call of the method raised (all is caught)
create_location_summary(store, location, text, summary) ==
    IF Blank(text) \/ summary = 0 THEN store
    ELSE AddTextVectors(store, {[SummaryPoint(location) EXCEPT !.text = summary]})

\* the chapter start in place of the location of the chunk
SummaryLocationOfChapter(k, location) == Chapters[k].start_location

\* lines 125-131: the summary is stored at the location of the chunk that
\* made it due
SummaryLocation(k, location) == location

(***************************************************************************)
(* Keyword index files.                                                    *)
(***************************************************************************)
\* lines 175-187: _create_bm25_index swallows its own failure, then the
\* metadata file is written; a failure there is logged
WriteIndex(files, all_chunks, all_metadata, pklFails, metaFails) ==
    IF all_chunks = <<>> THEN files
    ELSE [bm25 |-> IF pklFails THEN files.bm25 ELSE File(all_chunks),
          meta |-> IF metaFails THEN files.meta ELSE File(all_metadata)]

\* os.remove of the two files in order; the first missing file raises and
\* the rest is not run
RemoveFiles(files) ==
    IF ~files.bm25.exists THEN [files |-> files, raised |-> TRUE]
    ELSE [files |-> [bm25 |-> NoFile, meta |-> NoFile], raised |-> ~files.meta.exists]

\* delete_book_vectors followed by the removal of the two files, as both
\* delete_book_embeddings and the rollback of embed_book_content run it
DeleteAll(store, files, deleteFails) ==
    IF deleteFails
    THEN [store |-> store, files |-> files, raised |-> TRUE]
    ELSE LET r == RemoveFiles(files)
         IN  [store |-> {}, files |-> r.files, raised |-> r.raised]

\* lines 195-206: the rollback ignores its own failure, the error is re-raised
Rollback(store, files, deleteFails) ==
    DeleteAll(store, files, deleteFails)

\* lines 208-232: any failure is raised as VectorStoreException
DeleteBookEmbeddingsResult(store, files, deleteFails) ==
    DeleteAll(store, files, deleteFails)

(***************************************************************************)
(* Ingestion: embed_book_content_task / embed_book_content.                *)
(***************************************************************************)
\* summarized keeps, for every summary made due, its location and the
\* buffer it was made from
IdleTask ==
    [pc |-> "idle", ch |-> 0, b |-> 0, i |-> 0,
     all_chunks |-> <<>>, all_metadata |-> <<>>, batch_metadata |-> <<>>,
     location_text_buffer |-> <<>>, last_summary_location |-> 0, summarized |-> <<>>,
     total_embedded |-> 0, ret |-> "none",
     sawVectors |-> FALSE, visited |-> <<>>, failed |-> {}]

\* the for-loop over chapters from chapter k on: a chapter without content
\* file or with a small file is passed over; after the last chapter the
\* index is built
RECURSIVE EnterChapter(_, _, _)
EnterChapter(tk, k, onDisk) ==
    IF k > Len(Chapters)
    THEN [tk EXCEPT !.pc = "bm25", !.ch = k]
    ELSE LET seen == [tk EXCEPT !.visited = Append(@, k)]
         IN  IF ~onDisk \/ Chapters[k].file_size < min_file_size
             THEN EnterChapter(seen, k + 1, onDisk)
             ELSE [seen EXCEPT !.pc = "chunk", !.ch = k, !.b = 1, !.i = 0,
                               !.batch_metadata = <<>>]

\* a handler that ends the loop at the failed chapter
ChapterFailureAbort(tk, onDisk) ==
    [tk EXCEPT !.failed = @ \cup {tk.ch}, !.pc = "bm25", !.ch = Len(Chapters) + 1]

\* lines 171-173: the exception of a chapter is logged, the loop continues
ChapterFailure(tk, onDisk) ==
    EnterChapter([tk EXCEPT !.failed = @ \cup {tk.ch}], tk.ch + 1, onDisk)

\* after a batch is stored: next batch of the chapter, or next chapter
AfterBatch(tk, onDisk) ==
    IF tk.b < NumBatches(tk.ch)
    THEN [tk EXCEPT !.pc = "chunk", !.b = @ + 1, !.i = 0, !.batch_metadata = <<>>]
    ELSE EnterChapter(tk, tk.ch + 1, onDisk)

Files == [bm25 |-> bm25File, meta |-> metaFile]

\* lines 175-190 when the loop is over: build the index and return
Finish(t, tk, store, pklFails, metaFails) ==
    LET f == WriteIndex(Files, tk.all_chunks, tk.all_metadata, pklFails, metaFails)
    IN  /\ vectors' = store
        /\ bm25File' = f.bm25
        /\ metaFile' = f.meta
        /\ task' = [task EXCEPT ![t] = [tk EXCEPT !.pc = "done", !.ret = "ok"]]

\* the frame tk has run up to its next suspension point, or to the end
Proceed(t, tk, store, pklFails, metaFails) ==
    IF tk.pc = "bm25"
    THEN Finish(t, tk, store, pklFails, metaFails)
    ELSE /\ vectors' = store
         /\ task' = [task EXCEPT ![t] = tk]
         /\ UNCHANGED <<bm25File, metaFile>>

\* embed_book_content_task up to the first suspension point of
\* embed_book_content
StartTask(t) ==
    /\ task[t].pc = "idle"
    /\ UNCHANGED <<bookInDb, contentOnDisk, progress, del, q, call>>
    /\ IF ~bookInDb
       THEN /\ task' = [task EXCEPT ![t] = [@ EXCEPT !.pc = "done", !.ret = "nobook"]]
            /\ UNCHANGED <<vectors, bm25File, metaFile>>
       ELSE \E scrollFails, loadFails, deleteFails, pklFails, metaFails \in BOOLEAN :
            LET seen == [task[t] EXCEPT !.sawVectors = (vectors # {})]
            IN  IF HasVectorsForBook(vectors, scrollFails)
                THEN /\ task' = [task EXCEPT ![t] = [seen EXCEPT !.pc = "done", !.ret = "skipped"]]
                     /\ UNCHANGED <<vectors, bm25File, metaFile>>
                ELSE IF loadFails
                THEN LET r == Rollback(vectors, Files, deleteFails)
                     IN  /\ vectors' = r.store
                         /\ bm25File' = r.files.bm25
                         /\ metaFile' = r.files.meta
                         /\ task' = [task EXCEPT ![t] = [seen EXCEPT !.pc = "done", !.ret = "raised"]]
                ELSE Proceed(t, EnterChapter(seen, 1, contentOnDisk), vectors, pklFails, metaFails)

\* lines 118-149: one chunk of the batch, with the summary it may trigger
ProcessChunk(t) ==
    /\ task[t].pc = "chunk"
    /\ UNCHANGED <<bookInDb, contentOnDisk, progress, bm25File, metaFile, del, q, call>>
    /\ LET tk == task[t]
           len == BatchLen(tk.ch, tk.b)
           text == BatchChunk(tk.ch, tk.b, tk.i)
           location == ChunkLocation(tk.ch, len, tk.i)
           buf == Append(tk.location_text_buffer, text)
           due == (location - tk.last_summary_location) >= summary_interval
           at == SummaryLocation(tk.ch, location)
           metadata == [text |-> text, location |-> location, chapter_order |-> tk.ch,
                        content_type |-> "content"]
           tk1 == [tk EXCEPT !.location_text_buffer = IF due THEN <<>> ELSE buf,
                             !.summarized = IF due
                                            THEN Append(@, [location |-> at, text |-> buf])
                                            ELSE @,
                             !.last_summary_location = IF due THEN location ELSE @,
                             !.batch_metadata = Append(@, metadata),
                             !.all_chunks = Append(@, text),
                             !.all_metadata = Append(@, metadata),
                             !.i = @ + 1,
                             !.pc = IF tk.i + 1 = len THEN "embed" ELSE "chunk"]
       IN  /\ task' = [task EXCEPT ![t] = tk1]
           /\ IF due
              THEN \E stored \in BOOLEAN :
                       vectors' = create_location_summary(vectors, at, buf,
                                      IF stored THEN 900 + at ELSE 0)
              ELSE vectors' = vectors

\* lines 151-155: embed the batch and upsert it; then on to the next
\* suspension point
EmbedBatch(t) ==
    /\ task[t].pc = "embed"
    /\ UNCHANGED <<bookInDb, contentOnDisk, progress, del, q, call>>
    /\ \E outcome \in {"ok", "embed_fails", "upsert_fails"}, pklFails, metaFails \in BOOLEAN :
        LET tk == task[t]
        IN  IF outcome = "ok"
            THEN LET points == {ContentPoint(t, tk.batch_metadata[j]) :
                                    j \in 1..Len(tk.batch_metadata)}
                     tk1 == [tk EXCEPT !.total_embedded = @ + Len(tk.batch_metadata)]
                 IN  Proceed(t, AfterBatch(tk1, contentOnDisk),
                             AddTextVectors(vectors, points), pklFails, metaFails)
            ELSE Proceed(t, ChapterFailure(tk, contentOnDisk), vectors, pklFails, metaFails)

(***************************************************************************)
(* Deletion.                                                               *)
(***************************************************************************)
\* delete_book_embeddings called on the service
DeleteBookEmbeddings ==
    /\ UNCHANGED <<bookInDb, contentOnDisk, progress, task, q, call>>
    /\ \E deleteFails \in BOOLEAN :
        LET r == DeleteBookEmbeddingsResult(vectors, Files, deleteFails)
        IN  /\ vectors' = r.store
            /\ bm25File' = r.files.bm25
            /\ metaFile' = r.files.meta
            /\ del' = [state |-> IF r.raised THEN "raised" ELSE "ok",
                       storeFailed |-> deleteFails,
                       left |-> r.files.bm25.exists \/ r.files.meta.exists]

\* the delete_book route: files, embeddings (a failure is a warning), row
DeleteBook ==
    /\ bookInDb
    /\ UNCHANGED <<progress, task, q, call>>
    /\ \E deleteFails \in BOOLEAN :
        LET r == DeleteBookEmbeddingsResult(vectors, Files, deleteFails)
        IN  /\ vectors' = r.store
            /\ bm25File' = r.files.bm25
            /\ metaFile' = r.files.meta
            /\ del' = [state |-> IF r.raised THEN "raised" ELSE "ok",
                       storeFailed |-> deleteFails,
                       left |-> r.files.bm25.exists \/ r.files.meta.exists]
    /\ contentOnDisk' = FALSE
    /\ bookInDb' = FALSE

(***************************************************************************)
(* Reading progress routes.  completion_percentage is kept as the exact    *)
(* product percentage * total_locations.                                   *)
(***************************************************************************)
\* update_reading_progress with a current_location and no chapter_id
\* (lines 138-171): the location is clamped to [1, total_locations]
UpdateProgressLocation ==
    /\ bookInDb
    /\ UNCHANGED <<bookInDb, contentOnDisk, vectors, bm25File, metaFile, task, del, q, call>>
    /\ \E current_location \in ProgressLocations :
        LET loc == Min(Max(1, current_location), total_locations)
        IN  progress' = [current_location |-> loc, pct |-> loc * 100]

\* percentages sent to the progress route
ProgressPercentages == {-5, 130} \cup {5 * k : k \in 0..20}

\* update_reading_progress with a completion_percentage and no location
\* (lines 176-193): the percentage is clamped to [0, 100] and stored; the
\* location follows it only while the stored location is at most 1
UpdateProgressPercentage ==
    /\ bookInDb
    /\ UNCHANGED <<bookInDb, contentOnDisk, vectors, bm25File, metaFile, task, del, q, call>>
    /\ \E completion_percentage \in ProgressPercentages :
        LET normalized_percentage == Max(0, Min(100, completion_percentage))
            calculated_location ==
                Max(1, Min(total_locations, (normalized_percentage * total_locations) \div 100))
        IN  progress' = [current_location |->
                            IF total_locations > 0 /\ progress.current_location <= 1
                            THEN calculated_location
                            ELSE progress.current_location,
                         pct |-> normalized_percentage * total_locations]

\* reset_reading_progress
ResetProgress ==
    /\ bookInDb
    /\ progress # [current_location |-> 1, pct |-> 0]
    /\ UNCHANGED <<bookInDb, contentOnDisk, vectors, bm25File, metaFile, task, del, q, call>>
    /\ progress' = [current_location |-> 1, pct |-> 0]

(***************************************************************************)
(* Scores.  A score is an exact fraction n/d with d > 0.  The similarity   *)
(* of a text to a query is an input of the query (its profile).            *)
(***************************************************************************)
RECURSIVE Gcd(_, _)
Gcd(a, b) == IF b = 0 THEN a ELSE Gcd(b, a % b)

\* the fraction n/d in lowest terms
Frac(n, d) == LET g == Gcd(n, d) IN [n |-> n \div g, d |-> d \div g]
FracGeq(a, b) == a.n * b.d >= b.n * a.d
FracGt(a, b) == a.n * b.d > b.n * a.d

\* cosine similarity, in hundredths, of the text to a query of the profile
Sim(profile, text) ==
    IF profile = "none" THEN 0 ELSE 50 + 10 * (text % 4)

\* BM25 score of the text for a query of the profile
Bm(profile, text) ==
    IF profile = "none" THEN 0 ELSE text % 3

\* a highest-scored element first, down to the lowest
RECURSIVE SortByScore(_)
SortByScore(S) ==
    IF S = {} THEN <<>>
    ELSE LET top == CHOOSE r \in S : \A r2 \in S : FracGeq(r.score, r2.score)
         IN  <<top>> \o SortByScore(S \ {top})

Take(seq, n) == SubSeq(seq, 1, Min(n, Len(seq)))

RECURSIVE MaxScore(_)
MaxScore(seq) ==
    IF Len(seq) = 1 THEN seq[1].score
    ELSE LET m == MaxScore(Tail(seq))
         IN  IF FracGeq(seq[1].score, m) THEN seq[1].score ELSE m

Tag(seq, method) == [j \in 1..Len(seq) |-> [seq[j] EXCEPT !.search_method = method]]

(***************************************************************************)
(* Retrieval strategies.                                                   *)
(***************************************************************************)
\* calculate_location_boundary
calculate_location_boundary(current_location, total) ==
    IF current_location <= 0 THEN 1
    ELSE IF total # 0 /\ current_location > total THEN total
    ELSE current_location

\* the filter without the location range
MatchesFilterNoRange(v, location_boundary, content_type) ==
    content_type # "any" => v.content_type = content_type

\* the filter of search_vectors: book id (all points of the store carry
\* it), location range, and the metadata match when one is asked for
MatchesFilter(v, location_boundary, content_type) ==
    /\ v.location <= location_boundary
    /\ content_type # "any" => v.content_type = content_type

\* search_vectors: the points that pass the filter and the threshold, best
\* first, at most limit of them
search_vectors(store, profile, limit, score_threshold, location_boundary, content_type) ==
    LET hits == {[id |-> v.id, text |-> v.text, location |-> v.location,
                  content_type |-> v.content_type, search_method |-> "",
                  score |-> Frac(Sim(profile, v.text), 100)] :
                    v \in {w \in store : /\ MatchesFilter(w, location_boundary, content_type)
                                         /\ Sim(profile, w.text) >= score_threshold}}
    IN  Take(SortByScore(hits), limit)

\* which file of the pair is not there
Missing(files) ==
    CASE ~files.bm25.exists /\ ~files.meta.exists -> "both"
      [] ~files.bm25.exists -> "index"
      [] ~files.meta.exists -> "metadata"
      [] OTHER -> "none"

\* load_bm25_index: None when the file is missing or cannot be read
load_bm25_index(file, readFails) ==
    IF file.exists /\ ~readFails THEN file ELSE NoFile

\* the search with scores divided by the highest one and no more
Bm25ResultsNoCap(chunks, metadata_list, profile, location_boundary, limit) ==
    LET kept == {i \in 1..Len(chunks) :
                    /\ i <= Len(metadata_list)
                    /\ metadata_list[i].location <= location_boundary
                    /\ Bm(profile, chunks[i]) > 0}
        hits == {[id |-> <<"bm25", i>>, text |-> metadata_list[i].text,
                  location |-> metadata_list[i].location,
                  content_type |-> metadata_list[i].content_type, search_method |-> "",
                  score |-> Frac(Bm(profile, chunks[i]), 1)] : i \in kept}
        results == Take(SortByScore(hits), limit)
    IN  IF results = <<>> THEN <<>>
        ELSE LET max_score == MaxScore(results)
             IN  [j \in 1..Len(results) |->
                    [results[j] EXCEPT !.score =
                        Frac(results[j].score.n * max_score.d,
                             results[j].score.d * max_score.n)]]

\* BM25Service.search, lines 58-79, on a loaded index and metadata list
Bm25Results(chunks, metadata_list, profile, location_boundary, limit) ==
    LET kept == {i \in 1..Len(chunks) :
                    /\ i <= Len(metadata_list)
                    /\ metadata_list[i].location <= location_boundary
                    /\ Bm(profile, chunks[i]) > 0}
        hits == {[id |-> <<"bm25", i>>, text |-> metadata_list[i].text,
                  location |-> metadata_list[i].location,
                  content_type |-> metadata_list[i].content_type, search_method |-> "",
                  score |-> Frac(Bm(profile, chunks[i]), 1)] : i \in kept}
        results == Take(SortByScore(hits), limit)
    IN  IF results = <<>> THEN <<>>
        ELSE LET max_score == MaxScore(results)
             IN  [j \in 1..Len(results) |->
                    [results[j] EXCEPT !.score =
                        Frac(results[j].score.n * max_score.d * 95,
                             results[j].score.d * max_score.n * 100)]]

\* the search without the check of the metadata file and without the
\* handler: opening the missing file raises
Bm25SearchNoMetaCheck(files, readFails, profile, location_boundary, limit) ==
    LET index_data == load_bm25_index(files.bm25, readFails)
    IN  IF ~index_data.exists THEN [raised |-> FALSE, results |-> <<>>]
        ELSE IF ~files.meta.exists THEN [raised |-> TRUE, results |-> <<>>]
        ELSE [raised |-> FALSE,
              results |-> Bm25Results(index_data.data, files.meta.data, profile,
                                      location_boundary, limit)]

\* BM25Service.search: a missing index or metadata file gives no results,
\* and so does any exception
Bm25Search(files, readFails, profile, location_boundary, limit) ==
    LET index_data == load_bm25_index(files.bm25, readFails)
    IN  IF ~index_data.exists THEN [raised |-> FALSE, results |-> <<>>]
        ELSE IF ~files.meta.exists THEN [raised |-> FALSE, results |-> <<>>]
        ELSE [raised |-> FALSE,
              results |-> Bm25Results(index_data.data, files.meta.data, profile,
                                      location_boundary, limit)]

(***************************************************************************)
(* Fusion: per-group normalisation and deduplication (lines 162-208).      *)
(***************************************************************************)
OfMethod(seq, method) == SelectSeq(seq, LAMBDA r : r.search_method = method)

\* score / max * weight, with weight in tenths
Rescale(score, max, weight) ==
    IF max.n > 0 THEN Frac(score.n * max.d * weight, score.d * max.n * 10) ELSE Frac(0, 1)

Normalize(all_results) ==
    LET V == OfMethod(all_results, "vector")
        B == OfMethod(all_results, "bm25")
        E == OfMethod(all_results, "expanded_vector")
        S == OfMethod(all_results, "summary")
        NewScore(r) ==
            CASE r.search_method = "summary" -> Rescale(r.score, MaxScore(S), summary_weight)
              [] r.search_method = "expanded_vector" -> Rescale(r.score, MaxScore(E), expanded_weight)
              [] r.search_method = "vector" /\ B # <<>> ->
                    Rescale(r.score, MaxScore(V), 10 - BM25_WEIGHT)
              [] r.search_method = "bm25" /\ V # <<>> ->
                    Rescale(r.score, MaxScore(B), BM25_WEIGHT)
              [] OTHER -> r.score
    IN  [j \in 1..Len(all_results) |-> [all_results[j] EXCEPT !.score = NewScore(all_results[j])]]

\* sorted(..., reverse=True) is stable: equal scores keep their order
RECURSIVE InsertSorted(_, _)
InsertSorted(r, sorted) ==
    IF sorted = <<>> THEN <<r>>
    ELSE IF FracGt(r.score, sorted[1].score) THEN <<r>> \o sorted
    ELSE <<sorted[1]>> \o InsertSorted(r, Tail(sorted))

RECURSIVE SortedDesc(_)
SortedDesc(seq) ==
    IF seq = <<>> THEN <<>>
    ELSE LET rest == SortedDesc(SubSeq(seq, 1, Len(seq) - 1))
         IN  InsertSorted(seq[Len(seq)], rest)

\* text[:100]: a text is coded by its first hundred characters plus a
\* thousand times what follows them (the chunk and summary texts of the
\* book differ within their first hundred characters)
TextKey(text) == text % 1000

\* deduplication keyed on the whole text
RECURSIVE DedupWholeText(_, _)
DedupWholeText(sorted, seen_texts) ==
    IF sorted = <<>> THEN <<>>
    ELSE IF sorted[1].text \in seen_texts THEN DedupWholeText(Tail(sorted), seen_texts)
    ELSE <<sorted[1]>> \o DedupWholeText(Tail(sorted), seen_texts \cup {sorted[1].text})

\* the first result of each text key is kept
RECURSIVE Dedup(_, _)
Dedup(sorted, seen_texts) ==
    IF sorted = <<>> THEN <<>>
    ELSE IF TextKey(sorted[1].text) \in seen_texts THEN Dedup(Tail(sorted), seen_texts)
    ELSE <<sorted[1]>> \o Dedup(Tail(sorted), seen_texts \cup {TextKey(sorted[1].text)})

UniqueResults(all_results) == Dedup(SortedDesc(Normalize(all_results)), {})

(***************************************************************************)
(* process_query.                                                          *)
(***************************************************************************)
IdleQuery ==
    [pc |-> "idle", profile |-> "none", location_boundary |-> 0, start_location |-> 0,
     expanded |-> 0, all_results |-> <<>>, context_used |-> <<>>, response |-> "none",
     cause |-> "none", generated |-> FALSE,
     kw |-> [ran |-> FALSE, missing |-> "none", raised |-> FALSE],
     found |-> 0, beyond |-> FALSE]

\* the fusion without the check for an empty result
FuseAlwaysGenerate(frame) ==
    [frame EXCEPT !.pc = "generate",
                  !.context_used = Take(UniqueResults(frame.all_results), context_limit)]

\* lines 261-267: the frame is left with AIQueryException
Raise(cause) == [IdleQuery EXCEPT !.pc = "failed", !.cause = cause]

\* lines 195-232: deduplicate; nothing left gives the fixed response, else
\* the context is the first results and the answer is awaited (a book of
\* fewer than nine distinct texts never has the more than eight unique
\* results that line 224 asks for before it reranks)
Fuse(frame) ==
    LET unique_results == UniqueResults(frame.all_results)
    IN  IF unique_results = <<>>
        THEN [frame EXCEPT !.pc = "done", !.response = "insufficient", !.context_used = <<>>]
        ELSE [frame EXCEPT !.pc = "generate",
                           !.context_used = Take(unique_results, context_limit)]

\* the boundary read again from the reading progress at each strategy
LocationBoundaryReread(frame) ==
    calculate_location_boundary(progress.current_location, total_locations)

\* the local location_boundary of the frame, set once at lines 89-92
LocationBoundary(frame) == frame.location_boundary

\* lines 89-92: a total of 0 (or none) is taken as 100
ProcessQueryBoundary(current_location, book_total) ==
    calculate_location_boundary(current_location,
        IF book_total # 0 THEN book_total ELSE default_total_locations)

\* ask_question and process_query up to the await of _expand_query
QueryStart ==
    /\ q.pc = "idle"
    /\ UNCHANGED <<bookInDb, contentOnDisk, progress, vectors, bm25File, metaFile, task, del, call>>
    /\ IF ~bookInDb
       THEN q' = Raise("book_not_found")
       ELSE \E profile \in QueryProfiles :
            q' = [IdleQuery EXCEPT
                    !.pc = "expand",
                    !.profile = profile,
                    !.start_location = progress.current_location,
                    !.location_boundary =
                        ProcessQueryBoundary(progress.current_location, total_locations)]

\* _expand_query returns; a failed expansion gives no expanded query
QueryExpand ==
    /\ q.pc = "expand"
    /\ UNCHANGED <<bookInDb, contentOnDisk, progress, vectors, bm25File, metaFile, task, del, call>>
    /\ \E n \in 0..MaxExpanded : q' = [q EXCEPT !.pc = "embed", !.expanded = n]

\* the query embedding returns; keyword, vector and summary search run
\* (lines 100-143)
QueryRetrieve ==
    /\ q.pc = "embed"
    /\ UNCHANGED <<bookInDb, contentOnDisk, progress, vectors, bm25File, metaFile, task, del, call>>
    /\ \E fault \in {"none", "index_read", "query_embedding", "vector", "summary"} :
        LET B == LocationBoundary(q)
            kw == Bm25Search(Files, fault = "index_read", q.profile, B, BM25_RESULTS_LIMIT)
            bm25_results == IF kw.raised THEN <<>> ELSE Tag(kw.results, "bm25")
            search_results ==
                Tag(search_vectors(vectors, q.profile, vector_limit, vector_threshold, B, "any"),
                    "vector")
            summary_results ==
                Tag(search_vectors(vectors, q.profile, summary_limit, summary_threshold, B,
                                   "summary"), "summary")
            ran == [q EXCEPT !.kw = [ran |-> TRUE,
                                     missing |-> Missing(Files),
                                     raised |-> kw.raised],
                             !.found = Cardinality({v \in vectors :
                                            /\ v.location <= B
                                            /\ Sim(q.profile, v.text) >= vector_threshold}),
                             !.beyond = \E v \in vectors : v.location > B]
        IN  IF fault \in {"query_embedding", "vector", "summary"}
            THEN q' = Raise(fault)
            ELSE LET got == [ran EXCEPT !.all_results =
                                bm25_results \o search_results \o summary_results]
                 IN  q' = IF q.expanded > 0 THEN [got EXCEPT !.pc = "expanded"] ELSE Fuse(got)

\* one turn of the loop over the expanded queries (lines 145-155)
QueryExpandedSearch ==
    /\ q.pc = "expanded"
    /\ UNCHANGED <<bookInDb, contentOnDisk, progress, vectors, bm25File, metaFile, task, del, call>>
    /\ \E fault \in {"none", "expanded_embedding", "expanded_vector"},
          profile \in QueryProfiles :
        IF fault # "none"
        THEN q' = Raise(fault)
        ELSE LET expanded_results ==
                    Tag(search_vectors(vectors, profile, expanded_limit, expanded_threshold,
                                       LocationBoundary(q), "any"), "expanded_vector")
                 got == [q EXCEPT !.all_results = @ \o expanded_results,
                                  !.expanded = @ - 1,
                                  !.beyond = @ \/ \E v \in vectors : v.location > q.location_boundary]
             IN  q' = IF got.expanded > 0 THEN got ELSE Fuse(got)

\* the completion of the answer returns (lines 237-259)
QueryGenerate ==
    /\ q.pc = "generate"
    /\ UNCHANGED <<bookInDb, contentOnDisk, progress, vectors, bm25File, metaFile, task, del, call>>
    /\ \E fails \in BOOLEAN :
        q' = IF fails
             THEN [Raise("completion") EXCEPT !.generated = TRUE]
             ELSE [q EXCEPT !.pc = "done", !.response = "answer", !.generated = TRUE]

\* the request is over; the next one may come
QueryReturn ==
    /\ q.pc \in {"done", "failed"}
    /\ UNCHANGED <<bookInDb, contentOnDisk, progress, vectors, bm25File, metaFile, task, del, call>>
    /\ q' = IdleQuery

(***************************************************************************)
(* Location service and parser.  The content of a chapter is given by the  *)
(* number of characters of plain text that extract_text_streamed leaves    *)
(* of it and the number of characters (markup, blank space) it removes.    *)
(***************************************************************************)
Ceil(n, d) == (n + d - 1) \div d

\* len(extract_text_streamed(content, False))
PlainTextLen(content) == content.text

\* the division rounded down
calculate_locations_floor(content) ==
    Max(1, PlainTextLen(content) \div LOCATION_CHUNK_SIZE)

\* calculate_locations: max(1, ceil(char_count / location_chunk_size))
calculate_locations(content) ==
    Max(1, Ceil(PlainTextLen(content), LOCATION_CHUNK_SIZE))

\* the percentage from the integer quotient
get_percentage_from_location_intdiv(location, total) ==
    IF total <= 0 \/ location <= 0 THEN Frac(0, 1)
    ELSE Frac(Min(100, (location \div total) * 100), 1)

\* get_percentage_from_location: min(100, max(0, location / total * 100))
get_percentage_from_location(location, total) ==
    IF total <= 0 THEN Frac(0, 1)
    ELSE IF location <= 0 THEN Frac(0, 1)
    ELSE IF location >= total THEN Frac(100, 1)
    ELSE Frac(location * 100, total)

\* round(): the nearest integer to n/d, a half going to the even one
RoundHalfEven(n, d) ==
    LET whole == n \div d
        rest == n % d
    IN  IF 2 * rest < d THEN whole
        ELSE IF 2 * rest > d THEN whole + 1
        ELSE IF whole % 2 = 0 THEN whole ELSE whole + 1

\* get_location_from_percentage
get_location_from_percentage(percentage, total) ==
    IF percentage.n <= 0 \/ total <= 0 THEN 1
    ELSE IF FracGeq(percentage, Frac(100, 1)) THEN total
    ELSE Max(1, Min(total, RoundHalfEven(percentage.n * total, percentage.d * 100)))

\* a chapter whose range reaches one location too far
ProcessChapterPastEnd(content, order, total) ==
    [order |-> order,
     start_location |-> total + 1,
     end_location |-> total + 1 + calculate_locations(content),
     char_count |-> content.text + content.markup]

\* parse_book lines 393-408: the chapter takes the next locations
ProcessChapter(content, order, total) ==
    [order |-> order,
     start_location |-> total + 1,
     end_location |-> total + 1 + calculate_locations(content) - 1,
     char_count |-> content.text + content.markup]

\* parse_book lines 387-408: the loop over the chapters from chapter k on
RECURSIVE ParseChapters(_, _, _)
ParseChapters(contents, k, acc) ==
    IF k > Len(contents) THEN acc
    ELSE ParseChapters(contents, k + 1,
            [chapters |-> Append(acc.chapters, ProcessChapter(contents[k], k, acc.total_locations)),
             total_locations |-> acc.total_locations + calculate_locations(contents[k])])

parse_book(contents) ==
    ParseChapters(contents, 1, [chapters |-> <<>>, total_locations |-> 0])

\* the inputs of the calls; a call is made once, on any of its inputs
ChapterContents ==
    {[text |-> n, markup |-> m] : n \in {0, 1, 999, 1000, 1001, 1999, 2000, 2001}, m \in {0, 120}}
BookContents ==
    {[text |-> 0, markup |-> 40], [text |-> 1000, markup |-> 0],
     [text |-> 1001, markup |-> 120], [text |-> 2500, markup |-> 0]}

CallCalculateLocations ==
    /\ call = NoCall
    /\ UNCHANGED <<bookInDb, contentOnDisk, progress, vectors, bm25File, metaFile, task, del, q>>
    /\ \E content \in ChapterContents :
        call' = [op |-> "calculate_locations", content |-> content,
                 result |-> calculate_locations(content)]

CallLocationBoundary ==
    /\ call = NoCall
    /\ UNCHANGED <<bookInDb, contentOnDisk, progress, vectors, bm25File, metaFile, task, del, q>>
    /\ \E current_location \in -2..MaxLocation, total \in -1..MaxTotal :
        call' = [op |-> "calculate_location_boundary",
                 current_location |-> current_location, total_locations |-> total,
                 result |-> calculate_location_boundary(current_location, total)]

\* the boundary process_query takes for a book of that total
CallProcessQueryBoundary ==
    /\ call = NoCall
    /\ UNCHANGED <<bookInDb, contentOnDisk, progress, vectors, bm25File, metaFile, task, del, q>>
    /\ \E current_location \in 1..MaxLocation, total \in 0..MaxTotal :
        call' = [op |-> "process_query_boundary",
                 current_location |-> current_location, total_locations |-> total,
                 result |-> ProcessQueryBoundary(current_location, total)]

\* a location to its percentage and back
CallPercentageRoundTrip ==
    /\ call = NoCall
    /\ UNCHANGED <<bookInDb, contentOnDisk, progress, vectors, bm25File, metaFile, task, del, q>>
    /\ \E location \in -2..MaxLocation, total \in 1..MaxTotal :
        LET percentage == get_percentage_from_location(location, total)
        IN  call' = [op |-> "round_trip", location |-> location, total_locations |-> total,
                     percentage |-> percentage,
                     result |-> get_location_from_percentage(percentage, total)]

CallParseBook ==
    /\ call = NoCall
    /\ UNCHANGED <<bookInDb, contentOnDisk, progress, vectors, bm25File, metaFile, task, del, q>>
    /\ \E n \in 0..MaxChapters : \E contents \in [1..n -> BookContents] :
        call' = [op |-> "parse_book", contents |-> contents, result |-> parse_book(contents)]

(***************************************************************************)
(* The fusion of process_query on any list of results.                     *)
(***************************************************************************)
FusionInputs ==
    {[text |-> text, search_method |-> method, score |-> score] :
        text \in {11, 1011, 12},
        method \in {"vector", "bm25", "expanded_vector", "summary"},
        score \in {Frac(1, 2), Frac(9, 10)}}

CallFusion ==
    /\ call = NoCall
    /\ UNCHANGED <<bookInDb, contentOnDisk, progress, vectors, bm25File, metaFile, task, del, q>>
    /\ \E n \in 0..MaxResults : \E all_results \in [1..n -> FusionInputs] :
        call' = [op |-> "fusion", all_results |-> all_results,
                 unique_results |-> UniqueResults(all_results)]

(***************************************************************************)
(* Reranking (_rerank_results) and the choice of the top results.  The     *)
(* response of the judge is given by the matches of the rating pattern in  *)
(* it, in order, or fails.  A result without rerank_score reads as 0.      *)
(***************************************************************************)
\* the rating as the judge wrote it
RatingOfUnclamped(matches, i) ==
    LET at == {j \in 1..Len(matches) : matches[j].index - 1 = i}
    IN  IF at = {} THEN 0
        ELSE matches[CHOOSE j \in at : \A j2 \in at : j2 <= j].score

\* rankings[i] of lines 423-435 for the 0-based index i, 0 when there is
\* none: a later match of an index replaces an earlier one
RatingOf(matches, i) ==
    LET at == {j \in 1..Len(matches) : matches[j].index - 1 = i}
    IN  IF at = {} THEN 0
        ELSE Min(10, Max(1, matches[CHOOSE j \in at : \A j2 \in at : j2 <= j].score))

\* the key (rerank_score, score) of a is above that of b
RerankGt(a, b) ==
    \/ a.rerank_score > b.rerank_score
    \/ a.rerank_score = b.rerank_score /\ FracGt(a.score, b.score)

\* sorted(..., reverse=True) on that key; equal keys keep their order
RECURSIVE InsertByRerank(_, _)
InsertByRerank(r, sorted) ==
    IF sorted = <<>> THEN <<r>>
    ELSE IF RerankGt(r, sorted[1]) THEN <<r>> \o sorted
    ELSE <<sorted[1]>> \o InsertByRerank(r, Tail(sorted))

RECURSIVE SortedByRerank(_)
SortedByRerank(seq) ==
    IF seq = <<>> THEN <<>>
    ELSE InsertByRerank(seq[Len(seq)], SortedByRerank(SubSeq(seq, 1, Len(seq) - 1)))

\* a reranking that gives up the results when the judge fails
rerank_results_no_fallback(results, response) ==
    IF Len(results) < rerank_min_results THEN results
    ELSE IF response.fails THEN <<>>
    ELSE LET m == Min(rerank_limit, Len(results))
             results_to_rerank == SubSeq(results, 1, m)
             rated == {i \in 0..(m - 1) : \E j \in 1..Len(response.matches) :
                                              response.matches[j].index - 1 = i}
         IN  IF rated = {} THEN results_to_rerank
             ELSE SortedByRerank([k \in 1..m |->
                        [results_to_rerank[k] EXCEPT !.rerank_score =
                            IF (k - 1) \in rated THEN RatingOf(response.matches, k - 1) ELSE 1]])
                  \o SubSeq(results, m + 1, Len(results))

\* _rerank_results
rerank_results(results, response) ==
    IF Len(results) < rerank_min_results THEN results
    ELSE IF response.fails THEN results
    ELSE LET m == Min(rerank_limit, Len(results))
             results_to_rerank == SubSeq(results, 1, m)
             rated == {i \in 0..(m - 1) : \E j \in 1..Len(response.matches) :
                                              response.matches[j].index - 1 = i}
         IN  IF rated = {} THEN results
             ELSE SortedByRerank([k \in 1..m |->
                        [results_to_rerank[k] EXCEPT !.rerank_score =
                            IF (k - 1) \in rated THEN RatingOf(response.matches, k - 1) ELSE 1]])
                  \o SubSeq(results, m + 1, Len(results))

\* lines 223-228: many results for a query of several words are reranked
TopResults(unique_results, query_words, response) ==
    IF Len(unique_results) > rerank_threshold /\ query_words > rerank_min_words
    THEN Take(rerank_results(unique_results, response), reranked_limit)
    ELSE Take(unique_results, context_limit)

\* the deduplicated results handed over: n results of falling score,
\* all different or equal two by two
RerankInputs ==
    {[k \in 1..n |-> [text |-> k, rerank_score |-> 0,
                      score |-> IF paired THEN Frac((MaxRerank + 3 - k) \div 2, 20)
                                ELSE Frac(MaxRerank + 1 - k, 20)]] :
        n \in {4, 5, 9} \cup (rerank_limit..MaxRerank), paired \in BOOLEAN}

RerankMatches ==
    {[index |-> index, score |-> score] : index \in {0, 1, 2, 5, 16}, score \in {0, 5, 12}}

RerankResponses ==
    {[fails |-> TRUE, matches |-> <<>>]} \cup
    {[fails |-> FALSE, matches |-> matches] :
        matches \in UNION {[1..n -> RerankMatches] : n \in 0..MaxMatches}}

CallRerank ==
    /\ call = NoCall
    /\ UNCHANGED <<bookInDb, contentOnDisk, progress, vectors, bm25File, metaFile, task, del, q>>
    /\ \E results \in RerankInputs, response \in RerankResponses, query_words \in {3, 4} :
        call' = [op |-> "rerank", results |-> results, response |-> response,
                 query_words |-> query_words,
                 reranked |-> rerank_results(results, response),
                 top_results |-> TopResults(results, query_words, response)]

(***************************************************************************)
(* _create_location_summary called again and again on one store.           *)
(***************************************************************************)
SummaryLocations == {12, 18, 24}

\* buffers: empty, white space only, and with text in them
SummaryBuffers == {<<>>, <<0>>, <<0, 0>>, <<21>>, <<0, 21>>}

\* what the completion gives: nothing, or one of two texts
SummaryTexts == {0, 901, 902}

CallCreateLocationSummary ==
    /\ UNCHANGED <<bookInDb, contentOnDisk, progress, bm25File, metaFile, task, del, q>>
    /\ \E location \in SummaryLocations, text \in SummaryBuffers, summary \in SummaryTexts :
        /\ vectors' = create_location_summary(vectors, location, text, summary)
        /\ call' = [op |-> "create_location_summary", location |-> location, text |-> text,
                    summary |-> summary, before |-> vectors]

(***************************************************************************)
(* BM25Service.search on an index and its metadata list.                   *)
(***************************************************************************)
\* index entries: texts of BM25 score 1, 2, 0 and 2, before and after the
\* middle of the book
IndexedEntries ==
    {[text |-> text, location |-> location, chapter_order |-> 1, content_type |-> "content"] :
        text \in {10, 11, 12, 14}, location \in {4, 18}}

CallBm25Search ==
    /\ call = NoCall
    /\ UNCHANGED <<bookInDb, contentOnDisk, progress, vectors, bm25File, metaFile, task, del, q>>
    /\ \E n \in 0..MaxIndexed : \E metadata_list \in [1..n -> IndexedEntries] :
       \E profile \in QueryProfiles, location_boundary \in {10, 24}, limit \in {1, 2} :
        LET chunks == [j \in 1..n |-> metadata_list[j].text]
        IN  call' = [op |-> "bm25_search", chunks |-> chunks, metadata_list |-> metadata_list,
                     profile |-> profile, location_boundary |-> location_boundary,
                     limit |-> limit,
                     results |-> Bm25Results(chunks, metadata_list, profile,
                                             location_boundary, limit)]

(***************************************************************************)
(* chunk_text_streamed on the text of a chapter file (the .html branch,    *)
(* the one embed_book_content reaches: chapter files are chapter_N.html).  *)
(* A text is given by its length; where its breaks lie and how much white  *)
(* space surrounds a chunk is chosen anew in every turn of the loop, which *)
(* covers every text of that length.                                       *)
(***************************************************************************)
\* the sizes of embed_book_content and the defaults of the method
ChunkConfigs ==
    {[chunk_size |-> CHUNK_SIZE, chunk_overlap |-> CHUNK_OVERLAP],
     [chunk_size |-> default_chunk_size, chunk_overlap |-> default_chunk_overlap]}

TextLengths == {0, 1, 99, 100, 250, 400, 650, 1000, MaxTextLen}

\* buffer.rfind(sep, chunk_size // 2, chunk_size + window): -1, or an index
\* p with chunk_size // 2 <= p and p + 2 within both the window and the buffer
BreakCandidates(chunk_size, window, buflen) ==
    {-1} \cup {p \in {chunk_size \div 2, chunk_size \div 2 + 1, chunk_size - 2,
                      chunk_size + window - 2} :
                  p + 2 <= Min(chunk_size + window, buflen)}

\* lines 74-80: the paragraph break, else the sentence break, else the cut
\* at the target size or at the end of the buffer
ChunkEnd(chunk_size, buflen, paragraph_break, sentence_break) ==
    IF paragraph_break # -1 /\ paragraph_break > chunk_size \div 2 THEN paragraph_break + 2
    ELSE IF sentence_break # -1 /\ sentence_break > chunk_size \div 2 THEN sentence_break + 2
    ELSE Min(chunk_size, buflen)

\* the step without its lower limit
AdvanceNoFloor(chunk_end, chunk_size, chunk_overlap) ==
    chunk_end - (chunk_overlap \div 2)

\* line 86
Advance(chunk_end, chunk_size, chunk_overlap) ==
    Max(chunk_end - (chunk_overlap \div 2), chunk_size \div 2)

\* the call, up to the first test of the loop
ChunkStart ==
    /\ call = NoCall
    /\ UNCHANGED <<bookInDb, contentOnDisk, progress, vectors, bm25File, metaFile, task, del, q>>
    /\ \E config \in ChunkConfigs, len \in TextLengths :
        call' = [op |-> "chunk_text_streamed", chunk_size |-> config.chunk_size,
                 chunk_overlap |-> config.chunk_overlap, len |-> len,
                 pos |-> 0, prev |-> 0, iterations |-> 0,
                 chunk |-> 0, yielded |-> FALSE]

\* one turn of the while loop (lines 70-87); chunk is the length of the
\* stripped chunk
ChunkStep ==
    /\ call.op = "chunk_text_streamed"
    /\ call.pos < call.len
    /\ UNCHANGED <<bookInDb, contentOnDisk, progress, vectors, bm25File, metaFile, task, del, q>>
    /\ LET end_buffer == Min(call.pos + call.chunk_size * 3, call.len)
           buflen == end_buffer - call.pos
       IN  \E paragraph_break \in BreakCandidates(call.chunk_size, paragraph_window, buflen),
              sentence_break \in BreakCandidates(call.chunk_size, sentence_window, buflen) :
           LET chunk_end == ChunkEnd(call.chunk_size, buflen, paragraph_break, sentence_break)
           IN  \E white \in {0, 1, chunk_end - min_chunk_size, chunk_end - min_chunk_size + 1,
                             chunk_end} \cap (0..chunk_end) :
               LET chunk == chunk_end - white
               IN  call' = [call EXCEPT
                        !.prev = call.pos,
                        !.pos = call.pos + Advance(chunk_end, call.chunk_size, call.chunk_overlap),
                        !.iterations = @ + 1,
                        !.chunk = chunk,
                        !.yielded = (chunk > 0 /\ chunk >= min_chunk_size)]

(***************************************************************************)
(* Properties.                                                             *)
(***************************************************************************)
\* the chunk texts of the whole book, in chapter order
RECURSIVE ChunksFrom(_)
ChunksFrom(k) ==
    IF k > Len(Chapters) THEN <<>>
    ELSE [n \in 1..Chapters[k].nchunks |-> ChunkText(k, n)] \o ChunksFrom(k + 1)

AllChunkTexts == ChunksFrom(1)

\* the boundary of the frame's query, from the progress read at its start
BoundaryOfQuery ==
    IF q.start_location <= 0 THEN 1
    ELSE IF q.start_location > total_locations THEN total_locations
    ELSE q.start_location

\* C1: every result of every retrieval strategy, and so every passage of
\* the context and of context_used, has a location at most the boundary
\* computed from the reading progress and the book's total locations.
C1_BoundaryEnforced ==
    /\ \A j \in 1..Len(q.all_results) : q.all_results[j].location <= BoundaryOfQuery
    /\ \A j \in 1..Len(q.context_used) : q.context_used[j].location <= BoundaryOfQuery

\* a query answered from keyword and vector results while the store held a
\* vector beyond the boundary
C1_Witness ==
    /\ q.pc = "done"
    /\ q.response = "answer"
    /\ q.beyond
    /\ OfMethod(q.context_used, "bm25") # <<>>
    /\ OfMethod(q.all_results, "vector") # <<>>
    /\ OfMethod(q.all_results, "expanded_vector") # <<>>

\* C2: the failure of a single retrieval strategy (primary vector search,
\* keyword search, summary search, or the embedding or search of an
\* expanded query) never fails the query.
C2_StrategyFailureCaught ==
    q.pc = "failed" =>
        q.cause \notin {"vector", "summary", "expanded_embedding", "expanded_vector"}

\* C3: when the index file, the metadata file or both are missing, the
\* keyword search raises nothing and returns nothing, and the query still
\* carries the results of the vector search.
C3_AbsentIndexEmpty ==
    (q.kw.ran /\ q.kw.missing # "none") =>
        /\ ~q.kw.raised
        /\ OfMethod(q.all_results, "bm25") = <<>>
        /\ q.pc \in {"expanded", "generate", "done"} =>
            /\ Len(OfMethod(q.all_results, "vector")) = Min(q.found, vector_limit)
            /\ q.found > 0 => q.response # "insufficient"

\* a query answered from vector results while the index file was there and
\* its metadata file was not
C3_Witness ==
    /\ q.pc = "done"
    /\ q.response = "answer"
    /\ q.kw.missing = "metadata"
    /\ q.found > 0

\* C4: when no strategy returns a result, the query returns the fixed
\* response with an empty context_used, raises nothing and asks for no
\* completion of an answer.
C4_NoResultsInsufficient ==
    /\ (q.pc \in {"generate", "done"} /\ q.all_results = <<>>) =>
            /\ q.pc = "done"
            /\ q.response = "insufficient"
            /\ q.context_used = <<>>
            /\ ~q.generated
    /\ (q.generated /\ q.pc = "done") => q.all_results # <<>>

\* a query that found nothing on a book whose store holds vectors
C4_Witness ==
    /\ q.pc = "done"
    /\ q.response = "insufficient"
    /\ q.kw.ran
    /\ vectors # {}

\* C5: embed_book_content called while the store holds a vector of the
\* book returns 0 at once and writes nothing.
C5_SecondIngestNoOp ==
    \A t \in Tasks :
        task[t].sawVectors => (task[t].pc = "done" /\ task[t].ret = "skipped")

\* C6: without a deletion in between, each chunk of the book is upserted
\* as a content vector at most once, whatever the ingestion triggers.
C6_AtMostOnce ==
    \A j \in 1..Len(AllChunkTexts) :
        Cardinality({v \in vectors : v.content_type = "content"
                                     /\ v.text = AllChunkTexts[j]}) <= 1

\* C7: when embed_book_content raises, it leaves no vector of the book and
\* neither file of the keyword index.
C7_RollbackComplete ==
    [][\A t \in Tasks :
          (task[t].ret # "raised" /\ task'[t].ret = "raised") =>
              (vectors' = {} /\ ~bm25File'.exists /\ ~metaFile'.exists)]_vars

\* C8: an exception while a chapter is processed does not abort ingestion:
\* it never raises, the loop reaches every later chapter in order, and the
\* chunks of every chapter that did not fail and whose content is on disk
\* are taken, in chapter order.
C8_ChapterFailureSkipped ==
    \A t \in Tasks :
        task[t].failed # {} =>
            /\ task[t].ret # "raised"
            /\ task[t].visited = [k \in 1..Len(task[t].visited) |-> k]
            /\ task[t].pc = "done" =>
                /\ task[t].ret = "ok"
                /\ Len(task[t].visited) = Len(Chapters)
                /\ \A i, j \in 1..Len(task[t].all_chunks) :
                        i < j => task[t].all_chunks[i] < task[t].all_chunks[j]
                /\ contentOnDisk =>
                        \A k \in 1..Len(Chapters) : k \notin task[t].failed =>
                            \A n \in 1..Chapters[k].nchunks :
                                \E i \in 1..Len(task[t].all_chunks) :
                                    task[t].all_chunks[i] = ChunkText(k, n)

\* an ingestion that lost its first chapter and stored the last one
C8_Witness ==
    \E t \in Tasks :
        /\ task[t].pc = "done"
        /\ 1 \in task[t].failed
        /\ \E v \in vectors : v.id = <<"uuid4", t, ChunkText(Len(Chapters), 1)>>

\* C9: the index file and the metadata file are both present or both
\* absent, and when present they have the same length.
C9_IndexPairTogether ==
    /\ bm25File.exists = metaFile.exists
    /\ bm25File.exists => Len(bm25File.data) = Len(metaFile.data)

\* C10: delete_book_embeddings whose vector deletion succeeds does not
\* raise and leaves neither file, also when a file was already missing.
C10_DeleteTolerant ==
    (del.state # "none" /\ ~del.storeFailed) => (del.state = "ok" /\ ~del.left)

\* C11: ingestion and deletion of the book exclude each other: no delete
\* step is taken while a call of embed_book_content is between its first
\* and its last step, so that no artifact is written after the delete by
\* an ingestion that started before it.
C11_IngestDeleteExclusive ==
    [][(DeleteBookEmbeddings \/ DeleteBook) =>
          \A t \in Tasks : task[t].pc \in {"idle", "done"}]_vars

\* C12: the boundary of a query is computed once, from the reading progress
\* read at its start; it bounds the results of every strategy and does not
\* change while the query is in flight; a progress update committed in
\* between leaves the frame of the query as it is.
C12_BoundaryCapturedOnce ==
    [][/\ q'.pc \in {"expand", "embed", "expanded", "generate", "done"} =>
            /\ q'.location_boundary =
                    calculate_location_boundary(q'.start_location, total_locations)
            /\ \A j \in 1..Len(q'.all_results) :
                    q'.all_results[j].location <= q'.location_boundary
       /\ (q.pc \in {"expand", "embed", "expanded", "generate"} /\ q'.pc \notin {"idle", "failed"}) =>
            /\ q'.location_boundary = q.location_boundary
            /\ q'.start_location = q.start_location
       /\ progress' # progress => q' = q]_vars

\* a query in flight that has results and is about to search again, after
\* the reading progress moved past a stored vector beyond its boundary
C12_Witness ==
    /\ q.pc = "expanded"
    /\ q.all_results # <<>>
    /\ progress.current_location > q.start_location
    /\ \E v \in vectors : /\ v.location > q.location_boundary
                          /\ v.location <= progress.current_location
                          /\ Sim("mixed", v.text) >= expanded_threshold

\* the location lies in the range of the chapter of that order
InChapter(order, location) ==
    /\ order \in 1..Len(Chapters)
    /\ Chapters[order].start_location <= location
    /\ location <= Chapters[order].end_location

\* the chapter a chunk text was cut from
ChapterOfChunk(text) ==
    CHOOSE k \in 1..Len(Chapters) : \E n \in 1..Chapters[k].nchunks : ChunkText(k, n) = text

\* C14: the location of every chunk, in the payload of its content vector
\* and in the metadata of the keyword index, lies within the range of the
\* chapter the chunk was cut from.
C14_ChunkLocationInChapter ==
    /\ \A v \in vectors : v.content_type = "content" =>
            /\ v.chapter_order = ChapterOfChunk(v.text)
            /\ InChapter(v.chapter_order, v.location)
    /\ \A j \in 1..Len(metaFile.data) :
            /\ metaFile.data[j].chapter_order = ChapterOfChunk(metaFile.data[j].text)
            /\ InChapter(metaFile.data[j].chapter_order, metaFile.data[j].location)

\* the chunks of both chapters are stored as content vectors and listed in
\* the metadata file
C14_Witness ==
    /\ metaFile.exists
    /\ Len(metaFile.data) = Len(AllChunkTexts)
    /\ \A k \in 1..Len(Chapters) :
            \E v \in vectors : v.content_type = "content" /\ v.chapter_order = k

\* C13: the ranges of the chapters of a parsed book, in chapter order,
\* partition [1, total_locations]: the first starts at 1, each next one
\* starts right after the one before, no range is empty and the last ends
\* at total_locations.
C13_ChaptersPartition ==
    call.op = "parse_book" =>
        LET chapters == call.result.chapters
            total == call.result.total_locations
        IN  /\ Len(chapters) = Len(call.contents)
            /\ \A k \in 1..Len(chapters) :
                    /\ chapters[k].order = k
                    /\ chapters[k].start_location <= chapters[k].end_location
                    /\ k > 1 => chapters[k].start_location = chapters[k - 1].end_location + 1
            /\ IF chapters = <<>> THEN total = 0
               ELSE /\ chapters[1].start_location = 1
                    /\ chapters[Len(chapters)].end_location = total

\* a parsed book of three chapters, one without text and one of several
\* locations
C13_Witness ==
    /\ call.op = "parse_book"
    /\ Len(call.result.chapters) = 3
    /\ call.contents[2].text = 0
    /\ call.contents[1].text > LOCATION_CHUNK_SIZE
    /\ call.result.total_locations > 3

\* C15: calculate_location_boundary returns 1 for a current location of at
\* most 0, the total for a current location above the total, and the
\* current location otherwise, for all integers.
C15_BoundaryCases ==
    call.op = "calculate_location_boundary" =>
        call.result = (IF call.current_location <= 0 THEN 1
                       ELSE IF call.current_location > call.total_locations
                            THEN call.total_locations
                       ELSE call.current_location)

\* C16: for a book whose total_locations is 0 the boundary is 1, whatever
\* the current location.
C16_ZeroTotalBoundary ==
    (call.op \in {"calculate_location_boundary", "process_query_boundary"}
        /\ call.total_locations = 0) => call.result = 1

\* C17: for a total above 0, the location of the percentage of a location
\* is within 1 of that location clamped to [1, total]; 5 of 10 is 50
\* percent, and 50 percent of 10 is 5.
C17_PercentageRoundTrip ==
    call.op = "round_trip" =>
        LET clamped == Max(1, Min(call.total_locations, call.location))
        IN  /\ call.result - clamped \in {-1, 0, 1}
            /\ (call.location = 5 /\ call.total_locations = 10) =>
                    (call.percentage = Frac(50, 1) /\ call.result = 5)

\* a round trip through a percentage that is no whole number
C17_Witness ==
    /\ call.op = "round_trip"
    /\ call.location = 2
    /\ call.total_locations = 3
    /\ call.percentage.d # 1
    /\ call.result = 2

\* C18: calculate_locations of content whose plain text has n characters
\* is the least r >= 1 with n <= r * LOCATION_CHUNK_SIZE: 1 for exactly
\* LOCATION_CHUNK_SIZE characters, 2 for one more.
C18_LocationsCeil ==
    call.op = "calculate_locations" =>
        LET n == call.content.text
            r == call.result
        IN  /\ r >= 1
            /\ n <= r * LOCATION_CHUNK_SIZE
            /\ r > 1 => n > (r - 1) * LOCATION_CHUNK_SIZE
            /\ n = LOCATION_CHUNK_SIZE => r = 1
            /\ n = LOCATION_CHUNK_SIZE + 1 => r = 2

\* content of one character more than a location, markup apart
C18_Witness ==
    /\ call.op = "calculate_locations"
    /\ call.content.text = LOCATION_CHUNK_SIZE + 1
    /\ call.content.markup > 0
    /\ call.result = 2

\* C19: the stored progress has a current location within
\* [1, total_locations] and a completion percentage of
\* 100 * current_location / total_locations clamped to [0, 100] (both
\* sides taken times total_locations).
C19_ProgressInvariant ==
    bookInDb =>
        /\ 1 <= progress.current_location
        /\ progress.current_location <= total_locations
        /\ progress.pct = Max(0, Min(100 * total_locations, 100 * progress.current_location))

\* C20: of the fused results no two share a text key, and of all results
\* with one text key the one kept has the highest normalized score.
C20_DedupKeepsBest ==
    call.op = "fusion" =>
        LET normalized == Normalize(call.all_results)
            unique == call.unique_results
        IN  /\ \A i, j \in 1..Len(unique) :
                    i # j => TextKey(unique[i].text) # TextKey(unique[j].text)
            /\ \A i \in 1..Len(unique) : \E k \in 1..Len(normalized) : unique[i] = normalized[k]
            /\ \A k \in 1..Len(normalized) : \E i \in 1..Len(unique) :
                    /\ TextKey(unique[i].text) = TextKey(normalized[k].text)
                    /\ FracGeq(unique[i].score, normalized[k].score)

\* three results, the first two of different strategies and texts with one
\* text key, of which the second has the higher normalized score and is
\* the one kept
C20_Witness ==
    /\ call.op = "fusion"
    /\ Len(call.all_results) = 3
    /\ call.all_results[1].text # call.all_results[2].text
    /\ TextKey(call.all_results[1].text) = TextKey(call.all_results[2].text)
    /\ TextKey(call.all_results[3].text) # TextKey(call.all_results[1].text)
    /\ call.all_results[1].search_method # call.all_results[2].search_method
    /\ Len(call.unique_results) = 2
    /\ \E i \in 1..2 :
            /\ call.unique_results[i].text = call.all_results[2].text
            /\ FracGt(call.unique_results[i].score, Normalize(call.all_results)[1].score)

(***************************************************************************)
(* Reranking.                                                              *)
(***************************************************************************)
\* the ratings of a response that name one of the first m results
UsableRatings(response, m) ==
    {j \in 1..Len(response.matches) : response.matches[j].index \in 1..m}

\* C21: when reranking is triggered and the judge fails or its response holds
\* no usable rating, the results come back in the order they went in, none
\* added and none lost, and the query goes on with its first results.
C21_RerankFallback ==
    (call.op = "rerank"
        /\ Len(call.results) > 8 /\ call.query_words > 3
        /\ (call.response.fails
            \/ UsableRatings(call.response, Min(15, Len(call.results))) = {}))
    => /\ call.reranked = call.results
       /\ call.top_results = call.results

C21_Witness ==
    /\ call.op = "rerank"
    /\ Len(call.results) = 16 /\ call.query_words = 4
    /\ ~call.response.fails
    /\ Len(call.response.matches) = 2
    /\ UsableRatings(call.response, 15) = {}
    /\ call.top_results = call.results

\* C26: with at least one usable rating the output is a permutation of the
\* input: the first min(15, n) results, each with its rating clamped to 1..10
\* or with 1 when it has none, in falling order of (rating, score), and after
\* them the other results as they were.
C26_RerankPermutation ==
    (call.op = "rerank" /\ Len(call.results) >= 5 /\ ~call.response.fails
        /\ UsableRatings(call.response, Min(15, Len(call.results))) # {})
    => LET r == call.results
           out == call.reranked
           m == Min(15, Len(r))
           expected(k) ==
               LET js == {j \in 1..Len(call.response.matches) :
                              call.response.matches[j].index = k}
                   s == call.response.matches[CHOOSE j \in js : \A j2 \in js : j2 <= j].score
               IN  IF js = {} THEN 1 ELSE IF s < 1 THEN 1 ELSE IF s > 10 THEN 10 ELSE s
       IN  /\ Len(out) = Len(r)
           /\ \A k \in 1..m :
                Cardinality({p \in 1..m : out[p] = [r[k] EXCEPT !.rerank_score = expected(k)]}) = 1
           /\ \A p \in 1..(m - 1) :
                \/ out[p].rerank_score > out[p + 1].rerank_score
                \/ /\ out[p].rerank_score = out[p + 1].rerank_score
                   /\ FracGeq(out[p].score, out[p + 1].score)
           /\ \A k \in (m + 1)..Len(r) : out[k] = r[k]

C26_Witness ==
    /\ call.op = "rerank"
    /\ Len(call.results) = 17 /\ ~call.response.fails
    /\ call.response.matches = <<[index |-> 5, score |-> 0], [index |-> 5, score |-> 12]>>
    /\ call.reranked[1].text = 5 /\ call.reranked[1].rerank_score = 10
    /\ call.reranked[2].text = 1 /\ call.reranked[2].rerank_score = 1
    /\ call.reranked[17] = call.results[17]

(***************************************************************************)
(* Location summaries.                                                     *)
(***************************************************************************)
SummariesAt(store, location) ==
    {v \in store : v.content_type = "summary" /\ v.location = location}

\* C22: however often a summary is created for a location, the store holds
\* at most one summary vector for it, and after a creation that got a summary
\* exactly one, the latest; a creation from an empty or white-space buffer
\* leaves the store as it was.
C22_SummaryIdempotent ==
    /\ \A location \in SummaryLocations : Cardinality(SummariesAt(vectors, location)) <= 1
    /\ call.op = "create_location_summary" =>
        /\ (\A j \in 1..Len(call.text) : call.text[j] = 0) => vectors = call.before
        /\ ((\E j \in 1..Len(call.text) : call.text[j] # 0) /\ call.summary # 0) =>
            /\ Cardinality(SummariesAt(vectors, call.location)) = 1
            /\ \A v \in SummariesAt(vectors, call.location) : v.text = call.summary
            /\ \A location \in SummaryLocations \ {call.location} :
                SummariesAt(vectors, location) = SummariesAt(call.before, location)

C22_Witness ==
    /\ call.op = "create_location_summary"
    /\ call.text = <<0, 21>> /\ call.summary = 902
    /\ \E v \in SummariesAt(call.before, call.location) : v.text = 901
    /\ \A v \in SummariesAt(vectors, call.location) : v.text = 902
    /\ Cardinality(vectors) = 3

(***************************************************************************)
(* Chunk locations over a chapter.                                         *)
(***************************************************************************)
\* the location interpolated over the whole chapter for the chunk of
\* 1-based ordinal n in chapter k
WholeChapterLocation(k, n) ==
    LET s == Chapters[k].start_location
        e == Chapters[k].end_location
    IN  Max(s, Min(e, s + RoundHalfEven((e - s) * n, Chapters[k].nchunks + 1)))

\* C23: every chunk has the location interpolated over its whole chapter by
\* its ordinal among the chunks of the chapter, and within a chapter the
\* locations do not decrease in chunk order, also over several batches.
C23_LocationsOverChapter ==
    \A t \in Tasks :
        LET md == task[t].all_metadata
        IN  /\ \A j \in 1..Len(md) :
                    md[j].location = WholeChapterLocation(md[j].chapter_order, md[j].text % 10)
            /\ \A j1, j2 \in 1..Len(md) :
                    (j1 < j2 /\ md[j1].chapter_order = md[j2].chapter_order)
                        => md[j1].location <= md[j2].location

(***************************************************************************)
(* Normalization in fusion.                                                *)
(***************************************************************************)
\* the weight of a strategy, in tenths
StrategyWeight(method) ==
    CASE method = "summary" -> summary_weight
      [] method = "expanded_vector" -> expanded_weight
      [] method = "vector" -> 10 - BM25_WEIGHT
      [] method = "bm25" -> BM25_WEIGHT

\* C24: every fused score is the raw score divided by the highest raw score
\* of its own strategy group, times the weight of the strategy, whichever
\* other groups are empty; so no fused score is above its strategy weight.
C24_GroupsNormalizedAlone ==
    call.op = "fusion" =>
        LET raw == call.all_results
            fused == Normalize(raw)
        IN  \A k \in 1..Len(raw) :
                LET group == {j \in 1..Len(raw) : raw[j].search_method = raw[k].search_method}
                    top == CHOOSE j \in group : \A j2 \in group : FracGeq(raw[j].score, raw[j2].score)
                    weight == StrategyWeight(raw[k].search_method)
                IN  /\ fused[k].score = Frac(raw[k].score.n * raw[top].score.d * weight,
                                             raw[k].score.d * raw[top].score.n * 10)
                    /\ FracGeq(Frac(weight, 10), fused[k].score)

(***************************************************************************)
(* Strategies and the kind of vector they return.                          *)
(***************************************************************************)
\* C25: a result of the primary vector search is never a summary vector, a
\* result of the summary search always is one, and every result carries one
\* of the four strategy tags.
C25_StrategiesByContentType ==
    \A j \in 1..Len(q.all_results) :
        LET r == q.all_results[j]
        IN  /\ r.search_method \in {"vector", "bm25", "expanded_vector", "summary"}
            /\ r.search_method = "vector" => r.content_type # "summary"
            /\ r.search_method = "summary" => r.content_type = "summary"

(***************************************************************************)
(* Keyword search.                                                         *)
(***************************************************************************)
\* C27: the keyword search returns only entries of BM25 score above 0, best
\* first and at most limit of them; the scores are divided by the highest
\* returned one so that each lies in (0, 0.95] and the first is 0.95.
C27_KeywordRescaled ==
    call.op = "bm25_search" =>
        LET r == call.results
            eligible == {i \in 1..Len(call.chunks) :
                            /\ call.metadata_list[i].location <= call.location_boundary
                            /\ Bm(call.profile, call.chunks[i]) > 0}
        IN  /\ Len(r) = Min(call.limit, Cardinality(eligible))
            /\ \A j \in 1..Len(r) :
                    /\ Bm(call.profile, r[j].text) > 0
                    /\ r[j].score.n > 0
                    /\ FracGeq(Frac(95, 100), r[j].score)
                    /\ r[j].score = Frac(95 * Bm(call.profile, r[j].text),
                                         100 * Bm(call.profile, r[1].text))
            /\ \A j \in 1..(Len(r) - 1) : FracGeq(r[j].score, r[j + 1].score)
            /\ r # <<>> => r[1].score = Frac(95, 100)
            /\ \A i \in eligible :
                    r # <<>> /\ Bm(call.profile, call.chunks[i]) <= Bm(call.profile, r[1].text)
            /\ r # <<>> =>
                    Cardinality({i \in eligible : Bm(call.profile, call.chunks[i])
                                                    > Bm(call.profile, r[Len(r)].text)}) < Len(r)

\* three entries match, the best two are returned, the second with half
\* the score of the first
C27_Witness ==
    /\ call.op = "bm25_search"
    /\ call.limit = 2 /\ Len(call.chunks) = 3
    /\ \A i \in 1..3 : Bm(call.profile, call.chunks[i]) > 0
    /\ Len(call.results) = 2
    /\ call.results[1].score = Frac(95, 100)
    /\ call.results[2].score = Frac(95, 200)

AssignedLocation(t, text) ==
    LET md == task[t].all_metadata
    IN  md[CHOOSE j \in 1..Len(md) : md[j].text = text].location

\* C29: a summary made for location L during ingestion is made from the
\* text of chunks whose own location is at most L, and every summary vector
\* in the store is at the location of a summary made by a task; so a summary
\* within a query boundary holds no text from beyond it.
C29_SummaryWithinLocation ==
    /\ \A t \in Tasks : \A j \in 1..Len(task[t].summarized) :
            LET s == task[t].summarized[j]
            IN  /\ s.text # <<>>
                /\ \A i \in 1..Len(s.text) :
                        /\ \E m \in 1..Len(task[t].all_metadata) :
                                task[t].all_metadata[m].text = s.text[i]
                        /\ AssignedLocation(t, s.text[i]) <= s.location
    /\ \A v \in vectors : v.content_type = "summary" =>
            \E t \in Tasks : \E j \in 1..Len(task[t].summarized) :
                task[t].summarized[j].location = v.location

\* a summary stored at location 18 made from the three chunks of the first
\* chapter and the chunk of the second
C29_Witness ==
    \E t \in Tasks :
        /\ Len(task[t].summarized) = 1
        /\ task[t].summarized[1].location = 18
        /\ Len(task[t].summarized[1].text) = 4
        /\ \E v \in vectors : v.content_type = "summary" /\ v.location = 18

(***************************************************************************)
(* Keyword index and vector store after ingestion.                         *)
(***************************************************************************)
\* C30: when an ingestion running alone on a book that was not deleted
\* completes and has written its keyword index, every entry of the index
\* metadata has a content vector of the same text and location and every
\* content vector has such an entry, also when a chapter was given up after
\* a failed embedding or upsert.
C30_IndexMatchesVectors ==
    [][\A t \in Tasks :
        (/\ task[t].pc # "done"
         /\ task'[t].pc = "done" /\ task'[t].ret = "ok"
         /\ \A t2 \in Tasks \ {t} : task[t2].pc = "idle"
         /\ del = del' /\ bookInDb /\ contentOnDisk
         /\ metaFile'.exists /\ metaFile'.data = task'[t].all_metadata)
        => /\ \A j \in 1..Len(metaFile'.data) :
                \E v \in vectors' :
                    /\ v.content_type = "content"
                    /\ v.text = metaFile'.data[j].text
                    /\ v.location = metaFile'.data[j].location
           /\ \A v \in vectors' : v.content_type = "content" =>
                \E j \in 1..Len(metaFile'.data) :
                    /\ v.text = metaFile'.data[j].text
                    /\ v.location = metaFile'.data[j].location]_vars

Init ==
    /\ bookInDb = TRUE
    /\ contentOnDisk = TRUE
    /\ progress = [current_location |-> 1, pct |-> 0]
    /\ vectors = {}
    /\ bm25File = NoFile
    /\ metaFile = NoFile
    /\ task = [t \in Tasks |-> IdleTask]
    /\ del = [state |-> "none", storeFailed |-> FALSE, left |-> FALSE]
    /\ q = IdleQuery
    /\ call = NoCall

\* ingestion triggers and deletions of one book
Next ==
    \/ \E t \in Tasks : StartTask(t)
    \/ \E t \in Tasks : ProcessChunk(t)
    \/ \E t \in Tasks : EmbedBatch(t)
    \/ DeleteBookEmbeddings
    \/ DeleteBook

Spec == Init /\ [][Next]_vars

\* queries and progress updates beside one ingestion and the deletions
NextQuery ==
    \/ StartTask("t1")
    \/ ProcessChunk("t1")
    \/ EmbedBatch("t1")
    \/ DeleteBookEmbeddings
    \/ DeleteBook
    \/ UpdateProgressLocation
    \/ ResetProgress
    \/ QueryStart
    \/ QueryExpand
    \/ QueryRetrieve
    \/ QueryExpandedSearch
    \/ QueryGenerate
    \/ QueryReturn

SpecQuery == Init /\ [][NextQuery]_vars

\* the progress routes on their own
NextProgress ==
    \/ UpdateProgressLocation
    \/ UpdateProgressPercentage
    \/ ResetProgress

SpecProgress == Init /\ [][NextProgress]_vars

\* calls of the location service and of the parser
NextLocation ==
    \/ CallCalculateLocations
    \/ CallLocationBoundary
    \/ CallProcessQueryBoundary
    \/ CallPercentageRoundTrip
    \/ CallParseBook

SpecLocation == Init /\ [][NextLocation]_vars

\* calls of the fusion
NextFusion == CallFusion

SpecFusion == Init /\ [][NextFusion]_vars


NextRerank == CallRerank

SpecRerank == Init /\ [][NextRerank]_vars


NextSummary == CallCreateLocationSummary

SpecSummary == Init /\ [][NextSummary]_vars


NextKeyword == CallBm25Search

SpecKeyword == Init /\ [][NextKeyword]_vars


NextChunker ==
    \/ ChunkStart
    \/ ChunkStep

\* the consumer of the generator asks for the next chunk until there is none
SpecChunker == Init /\ [][NextChunker]_vars /\ WF_vars(ChunkStep)

====
